---- MODULE Spec2Model ----
(***************************************************************************)
(* The notebook notebooks/intro_geoutils.py as a state machine.            *)
(*                                                                         *)
(* The notebook is a straight-line script: every statement that binds a    *)
(* name is one action, taken in the order of the file, and `pc` is the     *)
(* line of the next statement.  The objects the statements create live in  *)
(* `heap`, keyed by an instance identity; a name holds an identity, 0      *)
(* before its first binding.  An object no name refers to any more is      *)
(* dropped from the heap, as the interpreter's reference counting does.    *)
(*                                                                         *)
(* Coordinates are metres in one ground frame.  A grid is stored as its    *)
(* CRS, its shape and its bounds; the resolution and the transform are     *)
(* derived from them (notebook lines 103-108).  The samples of a raster    *)
(* are a function from the valid pixels (row-major index, 1-based) to      *)
(* integers: a pixel outside the function's domain is a no-data pixel of   *)
(* the masked array (line 134).                                            *)
(***************************************************************************)
EXTENDS Integers, Sequences, FiniteSets, TLC

VARIABLES pc, heap, next_id, disk, stdout,
          dem_2009, dem_1990, outlines_1990, dem_2009_hs, slope, aspect,
          dem_test, outlines_proj, ddem, vmax, glacier_mask

vars == <<pc, heap, next_id, disk, stdout,
          dem_2009, dem_1990, outlines_1990, dem_2009_hs, slope, aspect,
          dem_test, outlines_proj, ddem, vmax, glacier_mask>>

\* ------------------------------------------------------------ constants

\* dem_1990.reproject(dst_res=60)
DstRes == 60

\* dem_1990.reproject(dst_bounds={"left":502810, "top":8674000,
\*                                "right":529430, "bottom": 8654290})
DstLeft == 502810
DstTop == 8674000
DstRight == 529430
DstBottom == 8654290

\* dem_1990.reproject(dst_crs='epsg:4326')
DstCrs == "epsg:4326"

\* ddem.save("temp_ddem.tif")
SavePath == "temp_ddem.tif"

\* ------------------------------------------------------------ grids

Grid(crs, w, h, l, t, r, b) ==
    [crs |-> crs, width |-> w, height |-> h,
     left |-> l, top |-> t, right |-> r, bottom |-> b]

GridOf(o) == Grid(o.crs, o.width, o.height, o.left, o.top, o.right, o.bottom)

SampleCount(g) == g.width * g.height

Pixels(g) == 1..SampleCount(g)

Col(g, p) == (p - 1) % g.width
Row(g, p) == (p - 1) \div g.width

CeilDiv(a, b) == (a + b - 1) \div b

\* The pixel p of g and the box [l, r] x [b, t] share ground of positive
\* area.  A pixel's edges are left + col * (right - left) / width and so on;
\* the comparisons are multiplied through by the width and the height.
PixelMeets(g, p, l, t, r, b) ==
    LET ex == g.right - g.left
        ey == g.top - g.bottom
    IN  /\ Col(g, p) * ex < (r - g.left) * g.width
        /\ (Col(g, p) + 1) * ex > (l - g.left) * g.width
        /\ Row(g, p) * ey < (g.top - b) * g.height
        /\ (Row(g, p) + 1) * ey > (g.top - t) * g.height

\* The pixel p of g lies wholly inside the box.
PixelInside(g, p, l, t, r, b) ==
    LET ex == g.right - g.left
        ey == g.top - g.bottom
    IN  /\ Col(g, p) * ex >= (l - g.left) * g.width
        /\ (Col(g, p) + 1) * ex <= (r - g.left) * g.width
        /\ Row(g, p) * ey >= (g.top - t) * g.height
        /\ (Row(g, p) + 1) * ey <= (g.top - b) * g.height

Clip(x, lo, hi) == IF x < lo THEN lo ELSE IF x > hi THEN hi ELSE x

\* The pixels of g that meet the box, found from the box's column and row
\* range (a grid may hold more than a million pixels).
PixelsMeeting(g, l, t, r, b) ==
    LET ex == g.right - g.left
        ey == g.top - g.bottom
        c0 == Clip(((l - g.left) * g.width) \div ex - 1, 0, g.width - 1)
        c1 == Clip(((r - g.left) * g.width) \div ex + 1, 0, g.width - 1)
        r0 == Clip(((g.top - t) * g.height) \div ey - 1, 0, g.height - 1)
        r1 == Clip(((g.top - b) * g.height) \div ey + 1, 0, g.height - 1)
        cand == {row * g.width + col + 1 : row \in r0..r1, col \in c0..c1}
    IN  {p \in cand : PixelMeets(g, p, l, t, r, b)}

\* ------------------------------------------------------------ objects

Raster(g, data) ==
    [kind |-> "raster", crs |-> g.crs, width |-> g.width, height |-> g.height,
     left |-> g.left, top |-> g.top, right |-> g.right, bottom |-> g.bottom,
     data |-> data]

Mask(g, data) ==
    [kind |-> "mask", crs |-> g.crs, width |-> g.width, height |-> g.height,
     left |-> g.left, top |-> g.top, right |-> g.right, bottom |-> g.bottom,
     data |-> data]

\* A geometry is the ground box it covers.
Box(l, t, r, b) == [left |-> l, top |-> t, right |-> r, bottom |-> b]

Vector(crs, geoms) == [kind |-> "vector", crs |-> crs, geoms |-> geoms]

\* ------------------------------------------------------------ input files

\* The three files the notebook reads are input: their content is drawn from
\* these.  The grids lie on the 20 m lattice anchored at the upper-left
\* corner of the bounds of line 201.
FileCrs == "epsg:25833"

GridA == Grid(FileCrs, 2, 1, 502810, 8674000, 502850, 8673980)
GridB == Grid(FileCrs, 1, 1, 502810, 8674000, 502870, 8673940)
GridC == Grid(FileCrs, 1, 2, 502830, 8674000, 502850, 8673960)
GridD == Grid(DstCrs, 2, 1, 502810, 8674000, 502850, 8673980)

DemFiles ==
    { Raster(GridA, (1 :> 5 @@ 2 :> 7)),
      Raster(GridA, (1 :> 6)),
      Raster(GridB, (1 :> 9)),
      Raster(GridC, (1 :> 5 @@ 2 :> 8)),
      Raster(GridD, (1 :> 5 @@ 2 :> 7)) }

OutlineFiles ==
    { Vector(FileCrs, {}),
      Vector(DstCrs, {Box(500000, 8680000, 530000, 8650000)}),
      Vector(FileCrs, {Box(502810, 8674000, 502830, 8673980)}),
      Vector(FileCrs, {Box(502820, 8674000, 502850, 8673970),
                       Box(502810, 8673960, 502830, 8673940)}) }

\* ------------------------------------------------------------ helpers

Range(f) == {f[x] : x \in DOMAIN f}

Abs(x) == IF x < 0 THEN -x ELSE x

RECURSIVE SumOver(_, _)
SumOver(f, S) ==
    IF S = {} THEN 0
    ELSE LET x == CHOOSE y \in S : TRUE IN f[x] + SumOver(f, S \ {x})

Max(S) == CHOOSE x \in S : \A y \in S : y <= x

\* ------------------------------------------------------------ library calls

\* The samples a resampling of src onto the grid g may return: a pixel of g
\* that meets no ground of src is no-data; any other pixel is no-data or
\* takes a value among the valid samples of src.
ResampleData(src, g) ==
    LET cov == PixelsMeeting(g, src.left, src.top, src.right, src.bottom)
    IN  UNION {[S -> Range(src.data)] : S \in SUBSET cov}

\* The grid reproject() resamples onto.
\* dst_ref: the grid of the reference raster.
RefGrid(ref) == GridOf(ref)

\* dst_res: same CRS and upper-left corner, pixels of exactly the size asked
\* for, as many as cover the extent.
ResGrid(r, res) ==
    LET w == CeilDiv(r.right - r.left, res)
        h == CeilDiv(r.top - r.bottom, res)
    IN  Grid(r.crs, w, h, r.left, r.top, r.left + w * res, r.top - h * res)

\* dst_bounds: same CRS, the bounds asked for, as many pixels of the
\* raster's own size as cover them.
BoundsGrid(r, l, t, rt, b) ==
    LET w == CeilDiv((rt - l) * r.width, r.right - r.left)
        h == CeilDiv((t - b) * r.height, r.top - r.bottom)
    IN  Grid(r.crs, w, h, l, t, rt, b)

\* dst_crs: the same ground in the CRS asked for.
CrsGrid(r, crs) ==
    Grid(crs, r.width, r.height, r.left, r.top, r.right, r.bottom)

\* Reproject as it would be without the own-grid shortcut: always resampled
\* into a new raster.
ReprojectAlways(r, g) ==
    {<<FALSE, Raster(g, d)>> : d \in ResampleData(r, g)}

\* Raster.reproject: line 181, "the two DEMs are already on the same grid,
\* so nothing is actually done": the raster itself comes back when the grid
\* asked for is its own; otherwise a new raster, resampled.  The result is
\* <<TRUE, r>> for the raster itself and <<FALSE, new>> for a new one.
Reproject(r, g) ==
    IF g = GridOf(r)
    THEN {<<TRUE, r>>}
    ELSE {<<FALSE, Raster(g, d)>> : d \in ResampleData(r, g)}

\* Vector.reproject(dst_crs): the same geometries, tagged with the new CRS.
VectorReproject(v, crs) == Vector(crs, v.geoms)

\* Sub with the operands added.
SubPlus(a, b) ==
    Raster(GridOf(a),
           [p \in DOMAIN a.data \cap DOMAIN b.data |-> a.data[p] + b.data[p]])

\* Raster.__sub__: the operands are on the same grid; a pixel is valid where
\* both operands are, and holds the difference.
SameGrid(a, b) == GridOf(a) = GridOf(b)

Sub(a, b) ==
    Raster(GridOf(a),
           [p \in DOMAIN a.data \cap DOMAIN b.data |-> a.data[p] - b.data[p]])

\* xdem.terrain.*: a raster on the grid of the DEM.  Of the values only a
\* stand-in is kept, the differences to the right and lower neighbours.
Neighbour(r, p, q) ==
    IF q \in DOMAIN r.data THEN Abs(r.data[q] - r.data[p]) ELSE 0

Terrain(attr, r) ==
    LET right(p) == IF Col(r, p) + 1 < r.width THEN p + 1 ELSE 0
        below(p) == p + r.width
        dx(p) == Neighbour(r, p, right(p))
        dy(p) == Neighbour(r, p, below(p))
    IN  Raster(GridOf(r),
               [p \in DOMAIN r.data |->
                   CASE attr = "slope" -> dx(p) + dy(p)
                     [] attr = "aspect" -> IF dx(p) >= dy(p) THEN 90 ELSE 180
                     [] attr = "hillshade" -> 255 - (dx(p) + dy(p))])

\* Vector.create_mask(raster): line 267, "True on glaciers, False elsewhere",
\* on the grid of the raster.  A pixel wholly inside a geometry is True, a
\* pixel that meets no geometry is False; a pixel a geometry covers in part
\* may be either.
MaskData(v, g) ==
    LET in(p) == \E x \in v.geoms :
                    PixelInside(g, p, x.left, x.top, x.right, x.bottom)
        meets(p) == \E x \in v.geoms :
                    PixelMeets(g, p, x.left, x.top, x.right, x.bottom)
    IN  {m \in [Pixels(g) -> BOOLEAN] :
            \A p \in Pixels(g) : (in(p) => m[p]) /\ (m[p] => meets(p))}

CreateMask(v, r) == {Mask(GridOf(r), m) : m \in MaskData(v, GridOf(r))}

\* ~mask
Invert(m) == Mask(GridOf(m), [p \in DOMAIN m.data |-> ~m.data[p]])

\* Index with the mask inverted.
IndexInverted(r, m) ==
    [p \in {q \in DOMAIN r.data : ~m.data[q]} |-> r.data[p]]

\* raster[mask]: the valid samples at the pixels where the mask is True.
Index(r, m) ==
    [p \in {q \in DOMAIN r.data : m.data[q]} |-> r.data[p]]

\* np.mean of a masked array: the sum of the valid samples over their
\* number, kept as the pair; "masked" when there is none.
Mean(d) ==
    IF DOMAIN d = {} THEN <<"masked">>
    ELSE <<"mean", SumOver(d, DOMAIN d), Cardinality(DOMAIN d)>>

\* np.max(np.abs(data))
MaxAbs(d) ==
    IF DOMAIN d = {} THEN <<"masked">>
    ELSE <<"max", Max({Abs(d[p]) : p \in DOMAIN d})>>

\* Raster.save: the grid and every pixel's sample, a no-data pixel written
\* as the no-data value.
Save(r) ==
    [grid |-> GridOf(r),
     band |-> [p \in Pixels(r) |->
                  IF p \in DOMAIN r.data THEN <<r.data[p]>> ELSE <<"nodata">>]]

\* Raster.info()
Info(r) == <<"info", GridOf(r), SampleCount(r)>>

\* ------------------------------------------------------------ the notebook

\* The identities the names hold.
Names == {dem_2009, dem_1990, outlines_1990, dem_2009_hs, slope, aspect,
          dem_test, outlines_proj, ddem, glacier_mask}

\* The heap h once the objects no identity of `roots` refers to are dropped.
Live(h, roots) == [i \in DOMAIN h \cap roots |-> h[i]]

Init ==
    /\ pc = 61
    /\ heap = <<>>
    /\ next_id = 1
    /\ disk = <<>>
    /\ stdout = <<>>
    /\ dem_2009 = 0 /\ dem_1990 = 0 /\ outlines_1990 = 0
    /\ dem_2009_hs = 0 /\ slope = 0 /\ aspect = 0
    /\ dem_test = 0 /\ outlines_proj = 0 /\ ddem = 0
    /\ vmax = <<>> /\ glacier_mask = 0

\* dem_2009 = gu.Raster(xdem.examples.get_path("longyearbyen_ref_dem"))
LoadDem2009 ==
    /\ pc = 61
    /\ \E f \in DemFiles :
        /\ dem_2009' = next_id
        /\ UNCHANGED <<dem_1990, outlines_1990, dem_2009_hs, slope, aspect,
                       dem_test, outlines_proj, ddem, vmax, glacier_mask>>
        /\ heap' = Live(heap @@ (next_id :> f), Names')
    /\ next_id' = next_id + 1
    /\ pc' = 62
    /\ UNCHANGED <<disk, stdout>>

\* dem_1990 = gu.Raster(xdem.examples.get_path("longyearbyen_tba_dem"))
LoadDem1990 ==
    /\ pc = 62
    /\ \E f \in DemFiles :
        /\ dem_1990' = next_id
        /\ UNCHANGED <<dem_2009, outlines_1990, dem_2009_hs, slope, aspect,
                       dem_test, outlines_proj, ddem, vmax, glacier_mask>>
        /\ heap' = Live(heap @@ (next_id :> f), Names')
    /\ next_id' = next_id + 1
    /\ pc' = 73
    /\ UNCHANGED <<disk, stdout>>

\* outlines_1990 = gu.Vector(xdem.examples.get_path(
\*     "longyearbyen_glacier_outlines"))
LoadOutlines ==
    /\ pc = 73
    /\ \E f \in OutlineFiles :
        /\ outlines_1990' = next_id
        /\ UNCHANGED <<dem_2009, dem_1990, dem_2009_hs, slope, aspect,
                       dem_test, outlines_proj, ddem, vmax, glacier_mask>>
        /\ heap' = Live(heap @@ (next_id :> f), Names')
    /\ next_id' = next_id + 1
    /\ pc' = 85
    /\ UNCHANGED <<disk, stdout>>

\* dem_2009_hs = xdem.terrain.hillshade(dem_2009)
Hillshade ==
    /\ pc = 85
    /\ dem_2009_hs' = next_id
    /\ UNCHANGED <<dem_2009, dem_1990, outlines_1990, slope, aspect,
                   dem_test, outlines_proj, ddem, vmax, glacier_mask>>
    /\ heap' = Live(heap @@ (next_id :> Terrain("hillshade", heap[dem_2009])),
                    Names')
    /\ next_id' = next_id + 1
    /\ pc' = 151
    /\ UNCHANGED <<disk, stdout>>

\* slope = xdem.terrain.slope(dem_1990)
Slope ==
    /\ pc = 151
    /\ slope' = next_id
    /\ UNCHANGED <<dem_2009, dem_1990, outlines_1990, dem_2009_hs, aspect,
                   dem_test, outlines_proj, ddem, vmax, glacier_mask>>
    /\ heap' = Live(heap @@ (next_id :> Terrain("slope", heap[dem_1990])),
                    Names')
    /\ next_id' = next_id + 1
    /\ pc' = 158
    /\ UNCHANGED <<disk, stdout>>

\* aspect = xdem.terrain.aspect(dem_1990)
Aspect ==
    /\ pc = 158
    /\ aspect' = next_id
    /\ UNCHANGED <<dem_2009, dem_1990, outlines_1990, dem_2009_hs, slope,
                   dem_test, outlines_proj, ddem, vmax, glacier_mask>>
    /\ heap' = Live(heap @@ (next_id :> Terrain("aspect", heap[dem_1990])),
                    Names')
    /\ next_id' = next_id + 1
    /\ pc' = 183
    /\ UNCHANGED <<disk, stdout>>

\* dem_1990 = dem_1990.reproject(dst_ref=dem_2009)
\* print(dem_1990.info()); print(dem_2009.info())
ReprojectRef ==
    /\ pc = 183
    /\ \E res \in Reproject(heap[dem_1990], RefGrid(heap[dem_2009])) :
        /\ dem_1990' = IF res[1] THEN dem_1990 ELSE next_id
        /\ UNCHANGED <<dem_2009, outlines_1990, dem_2009_hs, slope, aspect,
                       dem_test, outlines_proj, ddem, vmax, glacier_mask>>
        /\ heap' = Live(heap @@ (dem_1990' :> res[2]), Names')
        /\ next_id' = IF res[1] THEN next_id ELSE next_id + 1
        /\ stdout' = stdout \o <<Info(res[2]), Info(heap[dem_2009])>>
    /\ pc' = 194
    /\ UNCHANGED disk

\* Line 194 with the result bound to dem_1990 instead of dem_test.
ReprojectResRebind ==
    /\ pc = 194
    /\ \E res \in Reproject(heap[dem_1990], ResGrid(heap[dem_1990], DstRes)) :
        /\ dem_1990' = IF res[1] THEN dem_1990 ELSE next_id
        /\ UNCHANGED <<dem_2009, dem_test, outlines_1990, dem_2009_hs, slope,
                       aspect, outlines_proj, ddem, vmax, glacier_mask>>
        /\ heap' = Live(heap @@ (dem_1990' :> res[2]), Names')
        /\ next_id' = IF res[1] THEN next_id ELSE next_id + 1
        /\ stdout' = Append(stdout, Info(res[2]))
    /\ pc' = 201
    /\ UNCHANGED disk

\* Line 194 with dem_1990 resampled in place and dem_test bound to it.
ReprojectResInPlace ==
    /\ pc = 194
    /\ \E res \in Reproject(heap[dem_1990], ResGrid(heap[dem_1990], DstRes)) :
        /\ dem_test' = dem_1990
        /\ UNCHANGED <<dem_2009, dem_1990, outlines_1990, dem_2009_hs, slope,
                       aspect, outlines_proj, ddem, vmax, glacier_mask>>
        /\ heap' = Live([heap EXCEPT ![dem_1990] = res[2]], Names')
        /\ stdout' = Append(stdout, Info(res[2]))
    /\ UNCHANGED next_id
    /\ pc' = 201
    /\ UNCHANGED disk

\* dem_test = dem_1990.reproject(dst_res=60); print(dem_test.info())
ReprojectRes ==
    /\ pc = 194
    /\ \E res \in Reproject(heap[dem_1990], ResGrid(heap[dem_1990], DstRes)) :
        /\ dem_test' = IF res[1] THEN dem_1990 ELSE next_id
        /\ UNCHANGED <<dem_2009, dem_1990, outlines_1990, dem_2009_hs, slope,
                       aspect, outlines_proj, ddem, vmax, glacier_mask>>
        /\ heap' = Live(heap @@ (dem_test' :> res[2]), Names')
        /\ next_id' = IF res[1] THEN next_id ELSE next_id + 1
        /\ stdout' = Append(stdout, Info(res[2]))
    /\ pc' = 201
    /\ UNCHANGED disk

\* dem_test = dem_1990.reproject(dst_bounds={...}); print(dem_test.info())
ReprojectBounds ==
    /\ pc = 201
    /\ \E res \in Reproject(heap[dem_1990],
                            BoundsGrid(heap[dem_1990], DstLeft, DstTop,
                                       DstRight, DstBottom)) :
        /\ dem_test' = IF res[1] THEN dem_1990 ELSE next_id
        /\ UNCHANGED <<dem_2009, dem_1990, outlines_1990, dem_2009_hs, slope,
                       aspect, outlines_proj, ddem, vmax, glacier_mask>>
        /\ heap' = Live(heap @@ (dem_test' :> res[2]), Names')
        /\ next_id' = IF res[1] THEN next_id ELSE next_id + 1
        /\ stdout' = Append(stdout, Info(res[2]))
    /\ pc' = 208
    /\ UNCHANGED disk

\* dem_test = dem_1990.reproject(dst_crs='epsg:4326'); print(dem_test.info())
ReprojectCrs ==
    /\ pc = 208
    /\ \E res \in Reproject(heap[dem_1990], CrsGrid(heap[dem_1990], DstCrs)) :
        /\ dem_test' = IF res[1] THEN dem_1990 ELSE next_id
        /\ UNCHANGED <<dem_2009, dem_1990, outlines_1990, dem_2009_hs, slope,
                       aspect, outlines_proj, ddem, vmax, glacier_mask>>
        /\ heap' = Live(heap @@ (dem_test' :> res[2]), Names')
        /\ next_id' = IF res[1] THEN next_id ELSE next_id + 1
        /\ stdout' = Append(stdout, Info(res[2]))
    /\ pc' = 215
    /\ UNCHANGED disk

\* outlines_proj = outlines_1990.reproject(dst_crs=dem_2009.crs)
ReprojectOutlines ==
    /\ pc = 215
    /\ outlines_proj' = next_id
    /\ UNCHANGED <<dem_2009, dem_1990, outlines_1990, dem_2009_hs, slope,
                   aspect, dem_test, ddem, vmax, glacier_mask>>
    /\ heap' = Live(heap @@ (next_id :>
                       VectorReproject(heap[outlines_1990],
                                       heap[dem_2009].crs)),
                    Names')
    /\ next_id' = next_id + 1
    /\ pc' = 219
    /\ UNCHANGED <<disk, stdout>>

\* ddem = dem_2009 - dem_1990.  Operands on different grids raise, and the
\* script stops there.
Difference ==
    /\ pc = 219
    /\ IF SameGrid(heap[dem_2009], heap[dem_1990])
       THEN /\ ddem' = next_id
            /\ UNCHANGED <<dem_2009, dem_1990, outlines_1990, dem_2009_hs,
                           slope, aspect, dem_test, outlines_proj, vmax,
                           glacier_mask>>
            /\ heap' = Live(heap @@ (next_id :>
                               Sub(heap[dem_2009], heap[dem_1990])),
                            Names')
            /\ next_id' = next_id + 1
            /\ pc' = 230
       ELSE /\ pc' = -1
            /\ UNCHANGED <<heap, next_id, dem_2009, dem_1990, outlines_1990,
                           dem_2009_hs, slope, aspect, dem_test,
                           outlines_proj, ddem, vmax, glacier_mask>>
    /\ UNCHANGED <<disk, stdout>>

\* vmax = np.max(np.abs(ddem.data))
Vmax ==
    /\ pc = 230
    /\ vmax' = MaxAbs(heap[ddem].data)
    /\ pc' = 261
    /\ UNCHANGED <<heap, next_id, disk, stdout, dem_2009, dem_1990,
                   outlines_1990, dem_2009_hs, slope, aspect, dem_test,
                   outlines_proj, ddem, glacier_mask>>

\* ddem.save("temp_ddem.tif")
SaveDdem ==
    /\ pc = 261
    /\ disk' = (SavePath :> Save(heap[ddem])) @@ disk
    /\ pc' = 269
    /\ UNCHANGED <<heap, next_id, stdout, dem_2009, dem_1990,
                   outlines_1990, dem_2009_hs, slope, aspect, dem_test,
                   outlines_proj, ddem, vmax, glacier_mask>>

\* glacier_mask = outlines_1990.create_mask(ddem)
CreateGlacierMask ==
    /\ pc = 269
    /\ \E m \in CreateMask(heap[outlines_1990], heap[ddem]) :
        /\ glacier_mask' = next_id
        /\ UNCHANGED <<dem_2009, dem_1990, outlines_1990, dem_2009_hs, slope,
                       aspect, dem_test, outlines_proj, ddem, vmax>>
        /\ heap' = Live(heap @@ (next_id :> m), Names')
    /\ next_id' = next_id + 1
    /\ pc' = 276
    /\ UNCHANGED <<disk, stdout>>

\* print(np.mean(ddem[glacier_mask]))
MeanGlacier ==
    /\ pc = 276
    /\ stdout' = Append(stdout, Mean(Index(heap[ddem], heap[glacier_mask])))
    /\ pc' = 280
    /\ UNCHANGED <<heap, next_id, disk, dem_2009, dem_1990,
                   outlines_1990, dem_2009_hs, slope, aspect, dem_test,
                   outlines_proj, ddem, vmax, glacier_mask>>

\* print(np.mean(ddem[~glacier_mask]))
MeanStable ==
    /\ pc = 280
    /\ stdout' = Append(stdout,
                        Mean(Index(heap[ddem], Invert(heap[glacier_mask]))))
    /\ pc' = 285
    /\ UNCHANGED <<heap, next_id, disk, dem_2009, dem_1990,
                   outlines_1990, dem_2009_hs, slope, aspect, dem_test,
                   outlines_proj, ddem, vmax, glacier_mask>>

Next ==
    \/ LoadDem2009 \/ LoadDem1990 \/ LoadOutlines
    \/ Hillshade \/ Slope \/ Aspect
    \/ ReprojectRef \/ ReprojectRes \/ ReprojectBounds \/ ReprojectCrs
    \/ ReprojectOutlines \/ Difference \/ Vmax \/ SaveDdem
    \/ CreateGlacierMask \/ MeanGlacier \/ MeanStable

Spec == Init /\ [][Next]_vars

\* ------------------------------------------------------------ properties

\* Lines 194-215 rebind neither operand of the difference.
OperandsNotRebound ==
    pc \in {194, 201, 208, 215} =>
        (dem_1990' = dem_1990 /\ dem_2009' = dem_2009)

\* C10: when ddem = dem_2009 - dem_1990 is reached, dem_1990 is on the grid
\* of dem_2009 (it was reprojected onto it at line 183 and the statements of
\* lines 194-215 rebind neither operand), so the subtraction never raises;
\* and the mask that indexes ddem at lines 276 and 280 has the shape of ddem.
C10_SameGridAtDifference ==
    /\ [](pc # -1)
    /\ [](pc = 219 => SameGrid(heap[dem_2009], heap[dem_1990]))
    /\ [](pc \in {276, 280} =>
            /\ heap[glacier_mask].width = heap[ddem].width
            /\ heap[glacier_mask].height = heap[ddem].height)
    /\ [][OperandsNotRebound]_vars

\* The subtraction has run on two files of different grids, and the mask has
\* been made.
C10_Witness ==
    /\ pc = 276
    /\ \E i \in 1..Len(stdout) :
          stdout[i][1] = "info" /\ stdout[i][2] # GridOf(heap[ddem])

OwnGridStep ==
    (pc = 183 /\ SameGrid(heap[dem_1990], heap[dem_2009])) =>
        (heap'[dem_1990'] = heap[dem_1990])

TransformLines == {85, 151, 158, 183, 194, 201, 208, 215, 219, 269}

\* The objects that live through a step are what they were.
InputsUnchanged == \A i \in DOMAIN heap \cap DOMAIN heap' : heap'[i] = heap[i]

\* A transform's result is an instance the heap did not hold.
NewInstanceStep ==
    pc \in TransformLines =>
        /\ InputsUnchanged
        /\ pc = 85 => dem_2009_hs' \notin DOMAIN heap
        /\ pc = 151 => slope' \notin DOMAIN heap
        /\ pc = 158 => aspect' \notin DOMAIN heap
        /\ pc = 183 => dem_1990' \notin DOMAIN heap
        /\ pc \in {194, 201, 208} => dem_test' \notin DOMAIN heap
        /\ pc = 215 => outlines_proj' \notin DOMAIN heap
        /\ pc = 219 => ddem' \notin DOMAIN heap
        /\ pc = 269 => glacier_mask' \notin DOMAIN heap

AskedGrid ==
    CASE pc = 183 -> RefGrid(heap[dem_2009])
      [] pc = 194 -> ResGrid(heap[dem_1990], DstRes)
      [] pc = 201 -> BoundsGrid(heap[dem_1990], DstLeft, DstTop, DstRight,
                                DstBottom)
      [] pc = 208 -> CrsGrid(heap[dem_1990], DstCrs)

\* As NewInstanceStep, but a reprojection onto the raster's own grid returns
\* the raster.
NewUnlessOwnGridStep ==
    pc \in TransformLines =>
        /\ InputsUnchanged
        /\ pc = 85 => dem_2009_hs' \notin DOMAIN heap
        /\ pc = 151 => slope' \notin DOMAIN heap
        /\ pc = 158 => aspect' \notin DOMAIN heap
        /\ pc = 183 =>
              IF AskedGrid = GridOf(heap[dem_1990])
              THEN dem_1990' = dem_1990
              ELSE dem_1990' \notin DOMAIN heap
        /\ pc \in {194, 201, 208} =>
              IF AskedGrid = GridOf(heap[dem_1990])
              THEN dem_test' = dem_1990
              ELSE dem_test' \notin DOMAIN heap
        /\ pc = 215 => outlines_proj' \notin DOMAIN heap
        /\ pc = 219 => ddem' \notin DOMAIN heap
        /\ pc = 269 => glacier_mask' \notin DOMAIN heap

====
